---- MODULE Spec2Model ----
(***************************************************************************)
(* A model of the RCA report generator (src/app.py): the POST /generate    *)
(* handler with its three stages (attachment store, issue reporter,        *)
(* report composer) and the pure helpers they use.                         *)
(*                                                                         *)
(* Text is a sequence of one-character strings.  Lengths on the page are   *)
(* integers in hundredths of a PostScript point.                           *)
(***************************************************************************)
EXTENDS Integers, Sequences, FiniteSets, TLC

VARIABLES
    GITHUB_TOKEN,   \* app.py:22, read once at start-up
    GITHUB_REPO,    \* app.py:23
    pc,             \* position of the request in generate()
    request,        \* the raw multipart form of the submission
    site_name, date_val, heading, description, rca_by,  \* app.py:68-72
    flashed,        \* flash() messages
    uploaded,       \* request.files.getlist("files")
    idx,            \* position of the running for-loop over uploaded / saved_files
    now,            \* the UTC clock, in microseconds
    store,          \* the uploads directory: stored name -> content
    writes,         \* every f.save() so far: [path, src] (src: index in uploaded)
    saved_files,    \* app.py:80
    outbox,         \* every requests.post() so far
    issue_link,     \* app.py:93
    canvas,         \* the pages closed by showPage()
    page,           \* what is drawn on the current page
    y,              \* the layout cursor
    events,         \* the side effects of the request, in order
    response,       \* what the caller receives
    reply,          \* the tracker's answer r (status_code and body)
    textLines       \* the lines given to text.textLine()

vars == <<GITHUB_TOKEN, GITHUB_REPO, pc, request, site_name, date_val, heading,
          description, rca_by, flashed, uploaded, idx, now, store, writes,
          saved_files, outbox, issue_link, canvas, page, y, events, response,
          reply, textLines>>

(***************************************************************************)
(* Characters and the str methods the handler uses.                        *)
(***************************************************************************)
UpperChars == <<"A","B","C","D","E","F","G","H","I","J","K","L","M",
                "N","O","P","Q","R","S","T","U","V","W","X","Y","Z">>
LowerChars == <<"a","b","c","d","e","f","g","h","i","j","k","l","m",
                "n","o","p","q","r","s","t","u","v","w","x","y","z">>
Digits == <<"0","1","2","3","4","5","6","7","8","9">>

Range(s) == {s[i] : i \in 1..Len(s)}

Whitespace == {" ", "\n", "\t"}

\* str.lower() on one character
LowerChar(c) ==
    IF \E i \in 1..26 : UpperChars[i] = c
    THEN LowerChars[CHOOSE i \in 1..26 : UpperChars[i] = c]
    ELSE c

Lower(s) == [i \in 1..Len(s) |-> LowerChar(s[i])]

\* positions of the first and last character that is not in chars (0: none)
FirstOutside(s, chars) ==
    IF \E i \in 1..Len(s) : s[i] \notin chars
    THEN CHOOSE i \in 1..Len(s) : s[i] \notin chars /\ \A j \in 1..(i-1) : s[j] \in chars
    ELSE 0

LastOutside(s, chars) ==
    IF \E i \in 1..Len(s) : s[i] \notin chars
    THEN CHOOSE i \in 1..Len(s) : s[i] \notin chars /\ \A j \in (i+1)..Len(s) : s[j] \in chars
    ELSE 0

\* str.strip(chars)
StripChars(s, chars) ==
    IF FirstOutside(s, chars) = 0 THEN <<>>
    ELSE SubSeq(s, FirstOutside(s, chars), LastOutside(s, chars))

StripIdentity(s) == s

\* str.strip()
Strip(s) == StripChars(s, Whitespace)

\* position of the last c in s (0: none)
LastIndexOf(s, c) ==
    IF \E i \in 1..Len(s) : s[i] = c
    THEN CHOOSE i \in 1..Len(s) : s[i] = c /\ \A j \in (i+1)..Len(s) : s[j] # c
    ELSE 0

\* the positions that bound the pieces of s: its separators and both ends
Cuts(s, seps) == {0, Len(s) + 1} \cup {i \in 1..Len(s) : s[i] \in seps}

\* the k-th smallest element of a set of numbers
Nth(S, k) == CHOOSE x \in S : Cardinality({z \in S : z < x}) = k - 1

\* the pieces of s between the characters of seps, empty pieces kept
Split(s, seps) ==
    [k \in 1..(Cardinality(Cuts(s, seps)) - 1) |->
        SubSeq(s, Nth(Cuts(s, seps), k) + 1, Nth(Cuts(s, seps), k + 1) - 1)]

\* str.split(" ")
SplitOn(s, c) == Split(s, {c})

\* str.split(): runs of whitespace separate, no empty pieces
SplitWhitespace(s) == SelectSeq(Split(s, Whitespace), LAMBDA p : p # <<>>)

\* str.splitlines(): a final line break opens no further line
SplitLines(s) ==
    IF s = <<>> THEN <<>>
    ELSE IF s[Len(s)] = "\n" THEN Split(SubSeq(s, 1, Len(s) - 1), {"\n"})
    ELSE Split(s, {"\n"})

\* sep.join(parts)
RECURSIVE Join(_, _)
Join(parts, sep) ==
    IF parts = <<>> THEN <<>>
    ELSE IF Len(parts) = 1 THEN parts[1]
    ELSE parts[1] \o sep \o Join(Tail(parts), sep)

\* n copies of s
RECURSIVE Rep(_, _)
Rep(s, n) == IF n = 0 THEN <<>> ELSE s \o Rep(s, n - 1)

(***************************************************************************)
(* File names: allowed_file, is_image, secure_filename, os.path.splitext,  *)
(* strftime.                                                               *)
(***************************************************************************)
ImageExt == { <<"p","n","g">>, <<"j","p","g">>, <<"j","p","e","g">>,
              <<"g","i","f">>, <<"b","m","p">> }

ALLOWED_EXT == ImageExt \cup
    { <<"m","p","4">>, <<"m","o","v">>, <<"w","e","b","m">>, <<"m","k","v">>,
      <<"a","v","i">>,
      <<"p","d","f">>, <<"t","x","t">>, <<"l","o","g">>, <<"z","i","p">> }

\* filename.rsplit(".", 1)[1], for a name that holds a "."
AfterLastDot(name) == SubSeq(name, LastIndexOf(name, ".") + 1, Len(name))

allowed_file_any_ext(filename) == "." \in Range(filename)

allowed_file(filename) ==
    "." \in Range(filename) /\ Lower(AfterLastDot(filename)) \in ALLOWED_EXT

\* is_image raises IndexError on a name without "."
is_image_raises(filename) == "." \notin Range(filename)

is_image(filename) == Lower(AfterLastDot(filename)) \in ImageExt

\* werkzeug's secure_filename() on a POSIX host: non-ASCII characters are
\* dropped, "/" becomes a blank, runs of whitespace become one "_", characters
\* outside [A-Za-z0-9_.-] are dropped, and "." and "_" are stripped from both ends.
AsciiChars == Range(UpperChars) \cup Range(LowerChars) \cup Range(Digits)
                \cup {"_", ".", "-", " ", "/", "\n", "\t", "(", ")"}
SafeChars == Range(UpperChars) \cup Range(LowerChars) \cup Range(Digits) \cup {"_", ".", "-"}

secure_filename(filename) ==
    LET ascii    == SelectSeq(filename, LAMBDA c : c \in AsciiChars)
        nosep    == [i \in 1..Len(ascii) |-> IF ascii[i] = "/" THEN " " ELSE ascii[i]]
        joined   == Join(SplitWhitespace(nosep), <<"_">>)
        filtered == SelectSeq(joined, LAMBDA c : c \in SafeChars)
    IN  StripChars(filtered, {".", "_"})

\* os.path.splitext(): the extension starts at the last "." unless only dots
\* come before it
SplitextAt(p) ==
    IF LastIndexOf(p, ".") > 0
       /\ \E j \in 1..(LastIndexOf(p, ".") - 1) : p[j] # "."
    THEN LastIndexOf(p, ".")
    ELSE Len(p) + 1

SplitextBase(p) == SubSeq(p, 1, SplitextAt(p) - 1)
SplitextExt(p)  == SubSeq(p, SplitextAt(p), Len(p))

\* n as `width` decimal digits, zero padded
RECURSIVE Pad(_, _)
Pad(n, width) ==
    IF width = 0 THEN <<>> ELSE Append(Pad(n \div 10, width - 1), Digits[(n % 10) + 1])

\* utcnow().strftime('%Y%m%d%H%M%S%f') of the instant t microseconds after
\* 2024-01-01 00:00:00 (t below one minute)
Strftime(t) ==
    <<"2","0","2","4","0","1","0","1","0","0","0","0">>
        \o Pad((t \div 1000000) % 60, 2) \o Pad(t % 1000000, 6)

\* app.py:84-86
UniqueName(filename, t) ==
    SplitextBase(secure_filename(filename)) \o <<"_">> \o Strftime(t)
        \o SplitextExt(secure_filename(filename))

\* url_for("uploaded_file", filename=..., _external=True)
UrlFor(unique_name) == <<"http://host/uploads/">> \o unique_name

(***************************************************************************)
(* Page geometry (reportlab A4, in hundredths of a point) and text widths. *)
(* A4 is 210 mm x 297 mm = 595.2756 pt x 841.8898 pt.                      *)
(***************************************************************************)
A4Width  == 59528
A4Height == 84189
inch     == 7200
margin   == 5000

\* the leading canvas.setFont("Helvetica", 10) leaves for beginText(): 1.2 * size
Leading == 1200

\* Helvetica advance widths at 10 pt: 278/1000 em for a blank, 556/1000 em
\* for "a" and the other glyphs of the modelled alphabet
CharWidth(c) == IF c = " " THEN 278 ELSE 556

\* c.stringWidth(s, "Helvetica", 10): the sum of the advance widths
StringWidth(s) ==
    Cardinality({i \in 1..Len(s) : s[i] = " "}) * CharWidth(" ")
        + Cardinality({i \in 1..Len(s) : s[i] # " "}) * CharWidth("a")

max_width_no_margin == A4Width

\* app.py:154
max_width == A4Width - 2 * margin

\* app.py:159
Fits(test) == StringWidth(test) <= max_width

\* app.py:156-165: the textLine() calls of one paragraph, words i.. still to
\* place and line_txt the line being filled
RECURSIVE WrapFrom(_, _, _)
WrapFrom(words, i, line_txt) ==
    IF i > Len(words) THEN <<line_txt, <<>>>>
    ELSE LET test == Strip(line_txt \o <<" ">> \o words[i])
         IN  IF Fits(test)
             THEN WrapFrom(words, i + 1, test)
             ELSE <<line_txt>> \o WrapFrom(words, i + 1, words[i])

WrapParagraph(paragraph) == WrapFrom(SplitOn(paragraph, " "), 1, <<>>)

\* app.py:155-165: every textLine() call of the description
RECURSIVE WrapAll(_, _)
WrapAll(paragraphs, i) ==
    IF i > Len(paragraphs) THEN <<>>
    ELSE WrapParagraph(paragraphs[i]) \o WrapAll(paragraphs, i + 1)

DescribeLines(d) == WrapAll(SplitLines(d), 1)

(***************************************************************************)
(* Python values that may be None.                                         *)
(***************************************************************************)
PyNone   == [t |-> "None", v |-> <<>>]
PyStr(s) == [t |-> "str", v |-> s]
\* str(x)
StrOf(x) == IF x.t = "None" THEN <<"N","o","n","e">> ELSE x.v

NoToken == "<unset>"
Truthy(env) == env # NoToken /\ env # ""

NotConfiguredMsg == <<"GitHub token or repo not configured.">>
FailedMsg(status) == <<"GitHub issue creation failed (">> \o Pad(status, 3) \o <<").">>
HtmlUrl == <<"https://github.com/o/r/issues/1">>

(***************************************************************************)
(* The submissions the model draws from.                                   *)
(***************************************************************************)
MaxFiles == 2     \* uploads per submission

\* microseconds the clock may advance between two readings of one request;
\* the request's first reading is the instant 0
Ticks == {0, 1}

\* the required fields: all three given, or one of them missing or blank
Form(s, d, h) == [site_name |-> s, date |-> d, heading |-> h]
Forms ==
    { Form(<<" ","S","/","1"," ">>, <<"2","0","2","4">>, <<"J","a","m">>),
      Form(<<" ">>,                 <<"2","0","2","4">>, <<"J","a","m">>),
      Form(<<" ","S","/","1"," ">>, <<>>,                <<"J","a","m">>),
      Form(<<" ","S","/","1"," ">>, <<"2","0","2","4">>, <<" ","\t">>) }
RcaBys == { <<"J","D">> }

\* 26 one-word paragraphs: more lines than one page holds
LongDescription == Rep(<<"a","\n">>, 25) \o <<"a">>
Descriptions == { <<>>, <<" ","a"," ","a","\n">>, LongDescription }

\* an uploaded entry: its filename and what Image.open() finds in its bytes
\* (<<width, height>> in pixels, <<>> when they do not decode)
Upload(filename, content) == [filename |-> filename, content |-> content]

Uploads ==
    { Upload(<<>>, <<>>),
      Upload(<<"a">>, <<>>),
      Upload(<<"a",".","e","x","e">>, <<>>),
      Upload(<<"a",".","P","N","G">>, <<400, 300>>),
      Upload(<<"b",".","g","i","f">>, <<>>),
      Upload(<<".",".","/","a",".","t","x","t">>, <<>>),
      Upload(<<".","p","n","g">>, <<200, 100>>) }

UploadSeqs == UNION { [1..n -> Uploads] : n \in 0..MaxFiles }

Requests ==
    { [ site_name |-> f.site_name, date |-> f.date, heading |-> f.heading,
        description |-> d, rca_by |-> r, files |-> u ] :
      f \in Forms, d \in Descriptions, r \in RcaBys, u \in UploadSeqs }

Tokens == { NoToken, "ghp_x" }
Repos  == { "", "o/r" }

Statuses == { 200, 201, 404 }
\* the answer's JSON object holds an html_url or not
Bodies   == { "html_url", "no_html_url" }

NoRequest  == [ site_name |-> <<>>, date |-> <<>>, heading |-> <<>>,
                description |-> <<>>, rca_by |-> <<>>, files |-> <<>> ]
NoReply    == [status |-> 0, body |-> "none"]
Resp(kind, name, pages) == [kind |-> kind, name |-> name, pages |-> pages]
NoResponse == Resp("none", <<>>, <<>>)

(***************************************************************************)
(* Start-up (app.py:13-27): the credentials are read, the store is empty.  *)
(***************************************************************************)
Init ==
    /\ GITHUB_TOKEN \in Tokens
    /\ GITHUB_REPO \in Repos
    /\ pc = "idle"
    /\ request = NoRequest
    /\ site_name = <<>> /\ date_val = <<>> /\ heading = <<>>
    /\ description = <<>> /\ rca_by = <<>>
    /\ flashed = <<>>
    /\ uploaded = <<>>
    /\ idx = 1
    /\ now = 0
    /\ store = <<>>
    /\ writes = <<>>
    /\ saved_files = <<>>
    /\ outbox = <<>>
    /\ issue_link = PyNone
    /\ canvas = <<>>
    /\ page = <<>>
    /\ y = 0
    /\ events = <<>>
    /\ response = NoResponse
    /\ reply = NoReply
    /\ textLines = <<>>

\* a client posts the form to /generate
Submit(req) ==
    /\ pc = "idle"
    /\ request' = req
    /\ pc' = "validate"
    /\ UNCHANGED <<GITHUB_TOKEN, GITHUB_REPO, site_name, date_val, heading,
                   description, rca_by, flashed, uploaded, idx, now, store, writes,
                   saved_files, outbox, issue_link, canvas, page, y, events,
                   response, reply, textLines>>

\* app.py:74
Required(s, d, h) == s # <<>> /\ d # <<>> /\ h # <<>>

\* app.py:68-76: a required field is missing
GenerateInvalid ==
    /\ pc = "validate"
    /\ ~Required(Strip(request.site_name), Strip(request.date), Strip(request.heading))
    /\ site_name' = Strip(request.site_name)
    /\ date_val' = Strip(request.date)
    /\ heading' = Strip(request.heading)
    /\ description' = Strip(request.description)
    /\ rca_by' = Strip(request.rca_by)
    /\ flashed' = Append(flashed, <<"Site name, date, and heading are required.", "error">>)
    /\ response' = Resp("redirect", <<"/">>, <<>>)
    /\ events' = Append(events, "flash")
    /\ pc' = "done"
    /\ UNCHANGED <<GITHUB_TOKEN, GITHUB_REPO, request, uploaded, idx, now, store,
                   writes, saved_files, outbox, issue_link, canvas, page, y,
                   reply, textLines>>

\* app.py:68-80: the form is valid, the uploads are taken from the request
GenerateValid ==
    /\ pc = "validate"
    /\ Required(Strip(request.site_name), Strip(request.date), Strip(request.heading))
    /\ site_name' = Strip(request.site_name)
    /\ date_val' = Strip(request.date)
    /\ heading' = Strip(request.heading)
    /\ description' = Strip(request.description)
    /\ rca_by' = Strip(request.rca_by)
    /\ uploaded' = request.files
    /\ saved_files' = <<>>
    /\ idx' = 1
    /\ pc' = IF request.files = <<>> THEN "tracker" ELSE "uploads"
    /\ UNCHANGED <<GITHUB_TOKEN, GITHUB_REPO, request, flashed, now, store, writes,
                   outbox, issue_link, canvas, page, y, events, response, reply,
                   textLines>>

(***************************************************************************)
(* Attachment store, app.py:82-90: one iteration of the loop per action.   *)
(***************************************************************************)
\* app.py:83
Accepted(f) == f.filename # <<>> /\ allowed_file(f.filename)

AfterUpload(i) == IF i > Len(uploaded) THEN "tracker" ELSE "uploads"

\* the directory after f.save(path): a file of that name is replaced
Saved(dir, name, content) ==
    [n \in DOMAIN dir \cup {name} |-> IF n = name THEN content ELSE dir[n]]

Attachment(name, img, url) == [name |-> name, is_img |-> img, url |-> url]

\* app.py:83: the entry does not pass the filter
SkipUpload ==
    /\ pc = "uploads"
    /\ idx <= Len(uploaded)
    /\ ~Accepted(uploaded[idx])
    /\ idx' = idx + 1
    /\ pc' = AfterUpload(idx + 1)
    /\ UNCHANGED <<GITHUB_TOKEN, GITHUB_REPO, request, site_name, date_val, heading,
                   description, rca_by, flashed, uploaded, now, store, writes,
                   saved_files, outbox, issue_link, canvas, page, y, events,
                   response, reply, textLines>>

\* app.py:84-90: the entry is saved under its unique name and recorded
SaveUpload(tick) ==
    /\ pc = "uploads"
    /\ idx <= Len(uploaded)
    /\ Accepted(uploaded[idx])
    /\ writes = <<>> => tick = 0
    /\ now' = now + tick
    /\ LET unique_name == UniqueName(uploaded[idx].filename, now + tick)
       IN  /\ ~is_image_raises(unique_name)
           /\ store' = Saved(store, unique_name, uploaded[idx].content)
           /\ writes' = Append(writes, [path |-> unique_name, src |-> idx])
           /\ saved_files' = Append(saved_files,
                  Attachment(unique_name, is_image(unique_name), UrlFor(unique_name)))
    /\ events' = Append(events, "save")
    /\ idx' = idx + 1
    /\ pc' = AfterUpload(idx + 1)
    /\ UNCHANGED <<GITHUB_TOKEN, GITHUB_REPO, request, site_name, date_val, heading,
                   description, rca_by, flashed, uploaded, outbox, issue_link,
                   canvas, page, y, response, reply, textLines>>

\* app.py:84-90: the entry is saved, then is_image(unique_name) raises
\* IndexError (the unique name holds no "."), which ends the request
SaveUploadRaises(tick) ==
    /\ pc = "uploads"
    /\ idx <= Len(uploaded)
    /\ Accepted(uploaded[idx])
    /\ writes = <<>> => tick = 0
    /\ now' = now + tick
    /\ LET unique_name == UniqueName(uploaded[idx].filename, now + tick)
       IN  /\ is_image_raises(unique_name)
           /\ store' = Saved(store, unique_name, uploaded[idx].content)
           /\ writes' = Append(writes, [path |-> unique_name, src |-> idx])
    /\ events' = Append(events, "save")
    /\ response' = Resp("error", <<"IndexError">>, <<>>)
    /\ pc' = "done"
    /\ UNCHANGED <<GITHUB_TOKEN, GITHUB_REPO, request, site_name, date_val, heading,
                   description, rca_by, flashed, uploaded, idx, saved_files, outbox,
                   issue_link, canvas, page, y, reply, textLines>>

(***************************************************************************)
(* Issue reporter, app.py:93-116.                                          *)
(***************************************************************************)
ConfiguredTokenOnly == Truthy(GITHUB_TOKEN)

\* app.py:94
Configured == Truthy(GITHUB_TOKEN) /\ Truthy(GITHUB_REPO)

\* app.py:95
IssueTitle == site_name \o <<" - ">> \o date_val \o <<" - ">> \o heading

\* app.py:105-109
AttachmentLine(a) ==
    IF a.is_img
    THEN <<"![">> \o a.name \o <<"](">> \o a.url \o <<")">>
    ELSE <<"- [">> \o a.name \o <<"](">> \o a.url \o <<")">>

\* app.py:96-109
BodyLines ==
    << <<"**Site:** ">> \o site_name,
       <<"**Date:** ">> \o date_val,
       <<"**RCA Heading:** ">> \o heading,
       <<"**RCA By:** ">> \o rca_by,
       <<"\n", "**Description:**", "\n">>,
       description,
       <<"\n", "**Attachments:**", "\n">> >>
    \o [i \in 1..Len(saved_files) |-> AttachmentLine(saved_files[i])]

\* app.py:110-113: the JSON object posted to the tracker
IssueJson == [title |-> IssueTitle, lines |-> BodyLines,
              body |-> Join(BodyLines, <<"\n", "\n">>)]

\* app.py:114
IssueLinkOf(status, body) ==
    IF status \in {200, 201}
    THEN (IF body = "html_url" THEN PyStr(HtmlUrl) ELSE PyNone)
    ELSE PyStr(FailedMsg(status))

\* app.py:115-116
TrackerNotConfigured ==
    /\ pc = "tracker"
    /\ ~Configured
    /\ issue_link' = PyStr(NotConfiguredMsg)
    /\ events' = Append(events, "decide")
    /\ pc' = "compose"
    /\ UNCHANGED <<GITHUB_TOKEN, GITHUB_REPO, request, site_name, date_val, heading,
                   description, rca_by, flashed, uploaded, idx, now, store, writes,
                   saved_files, outbox, canvas, page, y, response, reply, textLines>>

\* app.py:94-114: the issue is posted and the tracker answers
TrackerPost(status, body) ==
    /\ pc = "tracker"
    /\ Configured
    /\ outbox' = Append(outbox, IssueJson)
    /\ reply' = [status |-> status, body |-> body]
    /\ issue_link' = IssueLinkOf(status, body)
    /\ events' = Append(events, "post")
    /\ pc' = "compose"
    /\ UNCHANGED <<GITHUB_TOKEN, GITHUB_REPO, request, site_name, date_val, heading,
                   description, rca_by, flashed, uploaded, idx, now, store, writes,
                   saved_files, canvas, page, y, response, textLines>>

\* app.py:114: the answer is 200/201 and r.json() raises on its body
TrackerJsonRaises(status) ==
    /\ pc = "tracker"
    /\ Configured
    /\ status \in {200, 201}
    /\ outbox' = Append(outbox, IssueJson)
    /\ reply' = [status |-> status, body |-> "malformed"]
    /\ events' = Append(events, "post")
    /\ response' = Resp("error", <<"JSONDecodeError">>, <<>>)
    /\ pc' = "done"
    /\ UNCHANGED <<GITHUB_TOKEN, GITHUB_REPO, request, site_name, date_val, heading,
                   description, rca_by, flashed, uploaded, idx, now, store, writes,
                   saved_files, issue_link, canvas, page, y, textLines>>

\* app.py:112: requests.post() raises (no answer from the tracker)
TrackerPostRaises ==
    /\ pc = "tracker"
    /\ Configured
    /\ outbox' = Append(outbox, IssueJson)
    /\ events' = Append(events, "post")
    /\ response' = Resp("error", <<"ConnectionError">>, <<>>)
    /\ pc' = "done"
    /\ UNCHANGED <<GITHUB_TOKEN, GITHUB_REPO, request, site_name, date_val, heading,
                   description, rca_by, flashed, uploaded, idx, now, store, writes,
                   saved_files, issue_link, canvas, page, y, reply, textLines>>

(***************************************************************************)
(* Report composer, app.py:119-226.                                        *)
(***************************************************************************)
\* something drawn on a page: y is the baseline of a text, the lower edge of
\* an image; h the height of an image
Elem(kind, yy, h, txt) == [kind |-> kind, y |-> yy, h |-> h, txt |-> txt]

\* app.py:38-52: the logo file is taken to be present
Logo == Elem("logo", A4Height - 8000, (8 * inch) \div 10, <<"AddverbImage.jpeg">>)

\* app.py:184, 198, 214
TopOfNewPage == A4Height - margin - 8000

\* app.py:134-140
MetaLine(yy, label, value) ==
    << Elem("label", yy, 0, <<label>>), Elem("value", yy, 0, value) >>

\* app.py:153-166: the text object's lines, the first at yy
TextElems(lines, yy) ==
    [i \in 1..Len(lines) |-> Elem("desc", yy - (i - 1) * Leading, 0, lines[i])]

\* app.py:120-167: first page, title, metadata and description
ComposeHead ==
    /\ pc = "compose"
    /\ LET y0 == A4Height - margin - 9000
           y1 == y0 - 3000
           y2 == y1 - 4 * 1800 - 1000
           y3 == y2 - 1400
           lines == DescribeLines(description)
       IN  /\ textLines' = lines
           /\ page' = << Logo, Elem("title", y0, 0, <<"RCA Report">>) >>
                  \o MetaLine(y1, "Site Name:", site_name)
                  \o MetaLine(y1 - 1800, "Date:", date_val)
                  \o MetaLine(y1 - 3600, "Heading:", heading)
                  \o MetaLine(y1 - 5400, "RCA By:", rca_by)
                  \o << Elem("label", y2, 0, <<"Description:">>) >>
                  \o TextElems(lines, y3)
           /\ y' = (y3 - Len(lines) * Leading) - 2000
    /\ canvas' = <<>>
    /\ idx' = 1
    /\ events' = Append(events, "draw")
    /\ pc' = "images"
    /\ UNCHANGED <<GITHUB_TOKEN, GITHUB_REPO, request, site_name, date_val, heading,
                   description, rca_by, flashed, uploaded, now, store, writes,
                   saved_files, outbox, issue_link, response, reply>>

\* app.py:177-180: the drawn height of an image of w x h pixels, the scale
\* being min(max_w / w, max_h / h, 1); a fraction of a hundredth is dropped
max_h == (35 * inch) \div 10
DrawH(w, h) ==
    IF w * 100 <= max_width /\ h * 100 <= max_h THEN h * 100
    ELSE IF max_width * h <= max_h * w THEN (h * max_width) \div w
    ELSE max_h

\* app.py:171-172: the entry is no image
SkipNonImage ==
    /\ pc = "images"
    /\ idx <= Len(saved_files)
    /\ ~saved_files[idx].is_img
    /\ idx' = idx + 1
    /\ UNCHANGED <<GITHUB_TOKEN, GITHUB_REPO, pc, request, site_name, date_val,
                   heading, description, rca_by, flashed, uploaded, now, store,
                   writes, saved_files, outbox, issue_link, canvas, page, y, events,
                   response, reply, textLines>>

\* app.py:173-186: the image decodes and is drawn, on a new page if need be
EmbedImage ==
    /\ pc = "images"
    /\ idx <= Len(saved_files)
    /\ saved_files[idx].is_img
    /\ store[saved_files[idx].name] # <<>>
    /\ LET im     == store[saved_files[idx].name]
           draw_h == DrawH(im[1], im[2])
           break  == y - draw_h < margin + 8000
           yy     == IF break THEN TopOfNewPage ELSE y
       IN  /\ canvas' = IF break THEN Append(canvas, page) ELSE canvas
           /\ page' = Append(IF break THEN <<Logo>> ELSE page,
                             Elem("image", yy - draw_h, draw_h, saved_files[idx].name))
           /\ y' = yy - (draw_h + 1200)
           /\ events' = events \o (IF break THEN <<"showPage">> ELSE <<>>) \o <<"draw">>
    /\ idx' = idx + 1
    /\ UNCHANGED <<GITHUB_TOKEN, GITHUB_REPO, pc, request, site_name, date_val,
                   heading, description, rca_by, flashed, uploaded, now, store,
                   writes, saved_files, outbox, issue_link, response, reply,
                   textLines>>

\* app.py:187-190: Image.open() raises, a notice is drawn in the image's place
EmbedImageError ==
    /\ pc = "images"
    /\ idx <= Len(saved_files)
    /\ saved_files[idx].is_img
    /\ store[saved_files[idx].name] = <<>>
    /\ page' = Append(page, Elem("error", y, 0, saved_files[idx].name))
    /\ y' = y - 1200
    /\ events' = Append(events, "draw")
    /\ idx' = idx + 1
    /\ UNCHANGED <<GITHUB_TOKEN, GITHUB_REPO, pc, request, site_name, date_val,
                   heading, description, rca_by, flashed, uploaded, now, store,
                   writes, saved_files, outbox, issue_link, canvas, response, reply,
                   textLines>>

NonImagesDropFirst(files) ==
    SubSeq(SelectSeq(files, LAMBDA a : ~a.is_img), 2,
           Len(SelectSeq(files, LAMBDA a : ~a.is_img)))

\* app.py:193
NonImages(files) == SelectSeq(files, LAMBDA a : ~a.is_img)

\* app.py:203-208: the two lines of the k-th entry, the first entry at yy
RECURSIVE AttachmentElems(_, _, _)
AttachmentElems(non_images, k, yy) ==
    IF k > Len(non_images) THEN <<>>
    ELSE << Elem("att_name", yy, 0, <<"- ">> \o non_images[k].name),
            Elem("att_url", yy - 1200, 0, non_images[k].url) >>
         \o AttachmentElems(non_images, k + 1, yy - 3000)

\* app.py:193-208: the list of the attachments that are no images
AttachmentList ==
    /\ pc = "images"
    /\ idx > Len(saved_files)
    /\ LET non_images == NonImages(saved_files)
           break == non_images # <<>> /\ y < margin + 8000
           yy    == IF break THEN TopOfNewPage ELSE y
       IN  /\ canvas' = IF break THEN Append(canvas, page) ELSE canvas
           /\ page' = IF non_images = <<>> THEN page
                      ELSE (IF break THEN <<Logo>> ELSE page)
                           \o << Elem("att_header", yy, 0, <<"Attachments:">>) >>
                           \o AttachmentElems(non_images, 1, yy - 1400)
           /\ y' = IF non_images = <<>> THEN y
                   ELSE yy - 1400 - 3000 * Len(non_images)
           /\ events' = events \o (IF break THEN <<"showPage">> ELSE <<>>)
                               \o (IF non_images = <<>> THEN <<>> ELSE <<"draw">>)
    /\ pc' = "issue"
    /\ UNCHANGED <<GITHUB_TOKEN, GITHUB_REPO, request, site_name, date_val, heading,
                   description, rca_by, flashed, uploaded, idx, now, store, writes,
                   saved_files, outbox, issue_link, response, reply, textLines>>

\* app.py:210-219
IssueLinkSection ==
    /\ pc = "issue"
    /\ LET break == y < margin + 6000
           yy    == IF break THEN TopOfNewPage ELSE y
       IN  /\ canvas' = IF break THEN Append(canvas, page) ELSE canvas
           /\ page' = (IF break THEN <<Logo>> ELSE page)
                      \o << Elem("issue_label", yy, 0, <<"GitHub Issue Link:">>),
                            Elem("issue_value", yy - 1400, 0, StrOf(issue_link)) >>
           /\ y' = yy - 4000
           /\ events' = events \o (IF break THEN <<"showPage">> ELSE <<>>) \o <<"draw">>
    /\ pc' = "finalize"
    /\ UNCHANGED <<GITHUB_TOKEN, GITHUB_REPO, request, site_name, date_val, heading,
                   description, rca_by, flashed, uploaded, idx, now, store, writes,
                   saved_files, outbox, issue_link, response, reply, textLines>>

FinalizeOpenPage ==
    /\ pc = "finalize"
    /\ response' = Resp("pdf",
                        secure_filename(site_name) \o <<"_">> \o date_val \o <<"_RCA.pdf">>,
                        canvas)
    /\ events' = events \o <<"send">>
    /\ pc' = "done"
    /\ UNCHANGED <<GITHUB_TOKEN, GITHUB_REPO, request, site_name, date_val, heading,
                   description, rca_by, flashed, uploaded, idx, now, store, writes,
                   saved_files, outbox, issue_link, canvas, page, y, reply, textLines>>

\* app.py:221-226: the last page is closed and the document is sent
Finalize ==
    /\ pc = "finalize"
    /\ canvas' = Append(canvas, page)
    /\ page' = <<>>
    /\ response' = Resp("pdf",
                        secure_filename(site_name) \o <<"_">> \o date_val \o <<"_RCA.pdf">>,
                        Append(canvas, page))
    /\ events' = events \o <<"showPage", "send">>
    /\ pc' = "done"
    /\ UNCHANGED <<GITHUB_TOKEN, GITHUB_REPO, request, site_name, date_val, heading,
                   description, rca_by, flashed, uploaded, idx, now, store, writes,
                   saved_files, outbox, issue_link, y, reply, textLines>>

Next ==
    \/ pc = "idle" /\ \E req \in Requests : Submit(req)
    \/ GenerateInvalid
    \/ GenerateValid
    \/ SkipUpload
    \/ \E tick \in Ticks : SaveUpload(tick)
    \/ \E tick \in Ticks : SaveUploadRaises(tick)
    \/ TrackerNotConfigured
    \/ \E status \in Statuses, body \in Bodies : TrackerPost(status, body)
    \/ \E status \in Statuses : TrackerJsonRaises(status)
    \/ TrackerPostRaises
    \/ ComposeHead
    \/ SkipNonImage
    \/ EmbedImage
    \/ EmbedImageError
    \/ AttachmentList
    \/ IssueLinkSection
    \/ Finalize

Spec == Init /\ [][Next]_vars

(***************************************************************************)
(* The description word-wrap on its own: the description is drawn from      *)
(* the texts made of up to MaxPieces pieces (words of 30, 60 and 95        *)
(* letters, a blank, a line break) and app.py:71 and 153-166 are applied.  *)
(***************************************************************************)
MaxPieces == 5

Pieces == { Rep(<<"a">>, 30), Rep(<<"a">>, 60), Rep(<<"a">>, 95), <<" ">>, <<"\n">> }

RECURSIVE Texts(_)
Texts(n) ==
    IF n = 0 THEN { <<>> }
    ELSE Texts(n - 1) \cup { t \o p : t \in Texts(n - 1), p \in Pieces }

InitWrap ==
    /\ GITHUB_TOKEN = NoToken
    /\ GITHUB_REPO = ""
    /\ pc = "wrap"
    /\ request \in { [NoRequest EXCEPT !.description = d] : d \in Texts(MaxPieces) }
    /\ site_name = <<>> /\ date_val = <<>> /\ heading = <<>>
    /\ description = <<>> /\ rca_by = <<>>
    /\ flashed = <<>>
    /\ uploaded = <<>>
    /\ idx = 1
    /\ now = 0
    /\ store = <<>>
    /\ writes = <<>>
    /\ saved_files = <<>>
    /\ outbox = <<>>
    /\ issue_link = PyNone
    /\ canvas = <<>>
    /\ page = <<>>
    /\ y = 0
    /\ events = <<>>
    /\ response = NoResponse
    /\ reply = NoReply
    /\ textLines = <<>>

\* app.py:71 and 153-166
WrapDescription ==
    /\ pc = "wrap"
    /\ description' = Strip(request.description)
    /\ textLines' = DescribeLines(Strip(request.description))
    /\ pc' = "wrapped"
    /\ UNCHANGED <<GITHUB_TOKEN, GITHUB_REPO, request, site_name, date_val, heading,
                   rca_by, flashed, uploaded, idx, now, store, writes, saved_files,
                   outbox, issue_link, canvas, page, y, events, response, reply>>

NextWrap == WrapDescription

SpecWrap == InitWrap /\ [][NextWrap]_vars

(***************************************************************************)
(* C10: the description word-wrap.                                         *)
(***************************************************************************)
PrintableWidth == A4Width - 2 * margin

\* the words of a text: its pieces between blanks that are not empty
WordsOf(t) == SelectSeq(SplitOn(t, " "), LAMBDA w : w # <<>>)

RECURSIVE WordsOfLines(_, _)
WordsOfLines(lines, i) ==
    IF i > Len(lines) THEN <<>> ELSE WordsOf(lines[i]) \o WordsOfLines(lines, i + 1)

FirstWord(line) == IF WordsOf(line) = <<>> THEN <<>> ELSE WordsOf(line)[1]

\* the words of the paragraph, in order, none lost and none twice
WordsKept(p) == WordsOfLines(WrapParagraph(p), 1) = WordsOf(p)

\* a line is emitted before the paragraph's end only when the next word
\* would overflow it
EmittedOnOverflow(p) ==
    \A k \in 1..(Len(WrapParagraph(p)) - 2) :
        StringWidth(Strip(WrapParagraph(p)[k] \o <<" ">> \o FirstWord(WrapParagraph(p)[k + 1])))
            > PrintableWidth

AllWordsFit(p) == \A i \in 1..Len(WordsOf(p)) : StringWidth(WordsOf(p)[i]) <= PrintableWidth

\* the paragraph ends with a blank line; when its words all fit, no line of
\* words is blank
OneBlankLine(p) ==
    /\ Len(WrapParagraph(p)) >= 2
    /\ WrapParagraph(p)[Len(WrapParagraph(p))] = <<>>
    /\ (AllWordsFit(p) /\ WordsOf(p) # <<>>) =>
          \A k \in 1..(Len(WrapParagraph(p)) - 1) : WrapParagraph(p)[k] # <<>>
    /\ (AllWordsFit(p) /\ WordsOf(p) = <<>>) => Len(WrapParagraph(p)) = 2

LineFits(line) == StringWidth(line) <= PrintableWidth

Wrapped == pc = "wrapped"

\* C10 (as amended): for every paragraph of the description, every emitted
\* line is within the printable width or is a single word that is by itself
\* wider than it; a line is emitted only when the next word would overflow it;
\* the words appear in their order, none lost or duplicated; the paragraph's
\* lines end with a blank line, the only blank one when all its words fit; and
\* the text's lines are the paragraphs' lines in order.
C10_WordWrap ==
    Wrapped =>
        /\ \A i \in 1..Len(SplitLines(description)) :
              LET p == SplitLines(description)[i]
              IN  /\ \A k \in 1..Len(WrapParagraph(p)) :
                         \/ LineFits(WrapParagraph(p)[k])
                         \/ (" " \notin Range(WrapParagraph(p)[k])
                             /\ ~LineFits(WrapParagraph(p)[k]))
                  /\ EmittedOnOverflow(p)
                  /\ WordsKept(p)
                  /\ OneBlankLine(p)
        /\ WordsOfLines(textLines, 1) = WordsOfLines(SplitLines(description), 1)
        /\ \A k \in 1..Len(textLines) :
              LineFits(textLines[k]) \/ " " \notin Range(textLines[k])

\* C10 as stated: every emitted line is within the printable width
C10_EveryLineFits ==
    Wrapped => \A k \in 1..Len(textLines) : LineFits(textLines[k])

\* a paragraph of several words was wrapped onto more than one line, one of
\* them holding two words, and a word wider than the printable width got a
\* line of its own
C10_Witness ==
    /\ Wrapped
    /\ \E k \in 1..Len(textLines) : Len(WordsOf(textLines[k])) >= 2
    /\ \E k \in 1..Len(textLines) : ~LineFits(textLines[k])
    /\ Len(textLines) >= 3

(***************************************************************************)
(* What the claims speak of.                                               *)
(***************************************************************************)
\* empty after trimming whitespace
Blank(s) == \A i \in 1..Len(s) : s[i] \in Whitespace

\* the tracker credentials are both present
CredsPresent == GITHUB_TOKEN \notin {NoToken, ""} /\ GITHUB_REPO \notin {NoToken, ""}

\* the entry has no filename, no extension, or an extension outside the allow-list
Filtered(f) ==
    \/ f.filename = <<>>
    \/ "." \notin Range(f.filename)
    \/ Lower(AfterLastDot(f.filename)) \notin ALLOWED_EXT

\* everything drawn so far, page after page
RECURSIVE Flatten(_, _)
Flatten(pages, i) == IF i > Len(pages) THEN <<>> ELSE pages[i] \o Flatten(pages, i + 1)
Drawn == Flatten(canvas, 1) \o page

\* how many elements of that kind and text the document holds
Count(elems, kind, txt) ==
    Cardinality({k \in 1..Len(elems) : elems[k].kind = kind /\ elems[k].txt = txt})

CountOf(log, tag) == Cardinality({k \in 1..Len(log) : log[k] = tag})

Positions(log, tags) == {k \in 1..Len(log) : log[k] \in tags}

Composing == pc \in {"compose", "images", "issue", "finalize"}
Delivered == pc = "done" /\ response.kind = "pdf"

(***************************************************************************)
(* C1                                                                      *)
(***************************************************************************)
MissingRequired ==
    /\ pc # "idle"
    /\ Blank(request.site_name) \/ Blank(request.date) \/ Blank(request.heading)

\* C1: a submission in which site_name, date or heading is empty after
\* trimming causes no side effect (no file written, no tracker call, nothing
\* composed) and is answered with the flash message and the redirect, whatever
\* files it carries and however the tracker is configured.
C1_InvalidHasNoSideEffect ==
    MissingRequired =>
        /\ pc \in {"validate", "done"}
        /\ writes = <<>> /\ store = <<>> /\ saved_files = <<>>
        /\ outbox = <<>>
        /\ canvas = <<>> /\ page = <<>>
        /\ response.kind \in {"none", "redirect"}
        /\ pc = "done" => (response.kind = "redirect" /\ Len(flashed) = 1)

C1_Witness ==
    /\ MissingRequired
    /\ pc = "done"
    /\ CredsPresent
    /\ \E i \in 1..Len(request.files) : ~Filtered(request.files[i])

(***************************************************************************)
(* C2                                                                      *)
(***************************************************************************)
\* C2: the tracker result handed to the composer is the issue URL (200/201),
\* the failure string with the status code (any other status) or the
\* not-configured string (a credential absent), and never None.
C2_IssueLinkNeverNull ==
    (Composing \/ Delivered) =>
        /\ issue_link.t = "str"
        /\ \/ CredsPresent /\ reply.status \in {200, 201} /\ issue_link.v = HtmlUrl
           \/ CredsPresent /\ reply.status \notin {0, 200, 201}
                /\ issue_link.v = FailedMsg(reply.status)
           \/ ~CredsPresent /\ issue_link.v = NotConfiguredMsg

(***************************************************************************)
(* C3                                                                      *)
(***************************************************************************)
\* C3: within one request the stored names of the accepted attachments are
\* pairwise distinct, and no save overwrites a file saved earlier in the batch.
C3_StoredNamesDistinct ==
    /\ \A i, j \in 1..Len(saved_files) :
          i # j => saved_files[i].name # saved_files[j].name
    /\ \A i, j \in 1..Len(writes) : i # j => writes[i].path # writes[j].path

(***************************************************************************)
(* C4                                                                      *)
(***************************************************************************)
SavedLike(a) ==
    Cardinality({k \in 1..Len(saved_files) : saved_files[k] = a})

\* every attachment that is no image is in the "Attachments:" list with its
\* name and, on the next line, its URL, and is drawn nowhere else
NonImagesListed(doc) ==
    \A i \in 1..Len(saved_files) :
        LET a == saved_files[i]
        IN  ~a.is_img =>
              /\ Count(doc, "att_header", <<"Attachments:">>) = 1
              /\ Count(doc, "att_name", <<"- ">> \o a.name) = SavedLike(a)
              /\ Count(doc, "att_url", a.url) = SavedLike(a)
              /\ \A k \in 1..Len(doc) :
                    (doc[k].kind = "att_name" /\ doc[k].txt = <<"- ">> \o a.name) =>
                        /\ k < Len(doc)
                        /\ doc[k + 1].kind = "att_url" /\ doc[k + 1].txt = a.url
              /\ Count(doc, "image", a.name) = 0
              /\ Count(doc, "error", a.name) = 0

\* C4 (as amended): in the returned document every attachment flagged
\* is_image whose file decodes is drawn as an image, every one whose file does
\* not decode is replaced by an error notice and is not drawn, and every
\* attachment flagged non-image is in the "Attachments:" list with its name
\* and URL and nowhere else.
C4_AttachmentsInDocument ==
    Delivered =>
        LET doc == Flatten(response.pages, 1)
        IN  /\ \A i \in 1..Len(saved_files) :
                  LET a == saved_files[i]
                  IN  a.is_img =>
                        IF store[a.name] # <<>>
                        THEN /\ Count(doc, "image", a.name) = SavedLike(a)
                             /\ Count(doc, "error", a.name) = 0
                        ELSE /\ Count(doc, "error", a.name) = SavedLike(a)
                             /\ Count(doc, "image", a.name) = 0
            /\ NonImagesListed(doc)

\* C4 as stated: every attachment flagged is_image is drawn as an image
C4_EveryImageDrawn ==
    Delivered =>
        LET doc == Flatten(response.pages, 1)
        IN  /\ \A i \in 1..Len(saved_files) :
                  saved_files[i].is_img => Count(doc, "image", saved_files[i].name) >= 1
            /\ NonImagesListed(doc)

C4_Witness ==
    /\ Delivered
    /\ \E i \in 1..Len(saved_files) :
          saved_files[i].is_img /\ store[saved_files[i].name] = <<>>
    /\ \E i \in 1..Len(saved_files) : ~saved_files[i].is_img

(***************************************************************************)
(* C5                                                                      *)
(***************************************************************************)
\* C5: nothing is drawn below the bottom edge (or above the top edge) of its
\* page.  A blank text line draws nothing.
C5_NothingClipped ==
    \A e \in Range(Drawn) : e.txt # <<>> => (e.y >= 0 /\ e.y + e.h <= A4Height)

(***************************************************************************)
(* C6                                                                      *)
(***************************************************************************)
SavedNames == {saved_files[k].name : k \in 1..Len(saved_files)}

\* C6: an entry with no filename, no extension or an extension outside the
\* allow-list is dropped silently: nothing is written for it, it is in neither
\* the tracker body nor the report, it raises no error, and the entries after
\* it are still processed.
C6_FilteredDropped ==
    /\ \A k \in 1..Len(writes) : ~Filtered(uploaded[writes[k].src])
    /\ Len(saved_files) <= Len(writes)
    /\ Cardinality(DOMAIN store) <= Len(writes)
    /\ \A k \in 1..Len(outbox) : Len(outbox[k].lines) = 7 + Len(saved_files)
    /\ \A e \in Range(Drawn) :
          /\ e.kind \in {"image", "error"} => e.txt \in SavedNames
          /\ e.kind = "att_name" => \E n \in SavedNames : e.txt = <<"- ">> \o n
    /\ (pc = "done" /\ Len(request.files) > 0
           /\ \A i \in 1..Len(request.files) : Filtered(request.files[i])
           /\ ~Blank(request.site_name) /\ ~Blank(request.date) /\ ~Blank(request.heading)) =>
          response.name \notin {<<"IndexError">>}
    /\ \A i \in 1..Len(uploaded) :
          Filtered(uploaded[i]) =>
            /\ (response.name = <<"IndexError">>) => idx # i
            /\ \A j \in (i + 1)..Len(uploaded) :
                  (~Filtered(uploaded[j]) /\ (Composing \/ Delivered)) =>
                      \E k \in 1..Len(writes) : writes[k].src = j

C6_Witness ==
    /\ Delivered
    /\ Len(uploaded) = 2
    /\ Filtered(uploaded[1])
    /\ uploaded[1].filename # <<>>
    /\ Len(writes) = 1 /\ writes[1].src = 2

(***************************************************************************)
(* C7                                                                      *)
(***************************************************************************)
\* the entry has been through the loop body
Processed(i) == i < idx \/ \E k \in 1..Len(writes) : writes[k].src = i

\* C7: every entry that passes the filter is persisted and recorded as exactly
\* one Attachment, named by the sanitized base name, the timestamp token and
\* the original extension, and flagged is_image exactly for an image extension.
C7_AcceptedRecorded ==
    \A i \in 1..Len(uploaded) :
        (~Filtered(uploaded[i]) /\ Processed(i)) =>
            /\ Cardinality({k \in 1..Len(writes) : writes[k].src = i}) = 1
            /\ \E k \in 1..Len(writes) :
                  /\ writes[k].src = i
                  /\ k <= Len(saved_files)
                  /\ saved_files[k].name = writes[k].path
                  /\ \E t \in 0..now :
                        saved_files[k].name =
                            SplitextBase(secure_filename(uploaded[i].filename))
                              \o <<"_">> \o Strftime(t)
                              \o <<".">> \o AfterLastDot(uploaded[i].filename)
                  /\ saved_files[k].is_img
                        <=> (Lower(AfterLastDot(uploaded[i].filename)) \in ImageExt)

(***************************************************************************)
(* C8                                                                      *)
(***************************************************************************)
\* C8: every attachment write comes before the tracker decision or call, the
\* tracker result before any drawing, the document is returned only after the
\* last page is closed, and at most one tracker call is made.
C8_FixedOrder ==
    /\ \A i \in Positions(events, {"save"}), j \in Positions(events, {"decide", "post"}) : i < j
    /\ \A i \in Positions(events, {"decide", "post"}),
          j \in Positions(events, {"draw", "showPage", "send"}) : i < j
    /\ \A i \in Positions(events, {"draw", "showPage"}), j \in Positions(events, {"send"}) : i < j
    /\ CountOf(events, "save") = Len(writes)
    /\ CountOf(events, "post") = Len(outbox)
    /\ Len(outbox) <= 1
    /\ CountOf(events, "decide") + CountOf(events, "post") <= 1
    /\ (writes # <<>> /\ pc = "uploads") => (outbox = <<>> /\ issue_link = PyNone)
    /\ (pc \in {"uploads", "tracker"}) => (canvas = <<>> /\ page = <<>>)
    /\ Drawn # <<>> =>
          (CountOf(events, "decide") + CountOf(events, "post") = 1 /\ pc \notin {"uploads", "tracker"})
    /\ response.kind = "pdf" =>
          /\ page = <<>>
          /\ response.pages = canvas
          /\ Len(events) >= 2
          /\ events[Len(events)] = "send"
          /\ events[Len(events) - 1] = "showPage"
          /\ Len(canvas) = CountOf(events, "showPage")

C8_Witness ==
    /\ Delivered
    /\ Len(writes) = 2
    /\ Len(outbox) = 1
    /\ Len(canvas) >= 2

(***************************************************************************)
(* C9                                                                      *)
(***************************************************************************)
\* the tracker stage ended without an issue: not configured, or a status
\* other than 200/201
TrackerDowngraded ==
    \/ ~CredsPresent /\ CountOf(events, "decide") = 1
    \/ reply.status \notin {0, 200, 201}

DowngradeText ==
    IF ~CredsPresent THEN NotConfiguredMsg ELSE FailedMsg(reply.status)

\* the composer can take its next step: the guard of one of its actions holds
ComposerCanStep ==
    \/ pc \in {"compose", "issue", "finalize"}
    \/ pc = "images" /\ idx > Len(saved_files)
    \/ pc = "images" /\ idx <= Len(saved_files) /\ ~saved_files[idx].is_img
    \/ pc = "images" /\ idx <= Len(saved_files) /\ saved_files[idx].is_img
          /\ saved_files[idx].name \in DOMAIN store

\* C9: with a credential missing no call is made; and when the credentials
\* are missing or the tracker answers with a status other than 200/201, the
\* request goes on through the composer (no error is returned, and until the
\* document is returned the composer has a step to take) and the document
\* returned holds the corresponding status string in its issue-link section.
C9_TrackerFailureDowngraded ==
    /\ ~CredsPresent => outbox = <<>>
    /\ TrackerDowngraded =>
          /\ response.kind \in {"none", "pdf"}
          /\ pc # "done" => ComposerCanStep
          /\ pc = "done" =>
                /\ response.kind = "pdf"
                /\ LET last == response.pages[Len(response.pages)]
                   IN  /\ Count(last, "issue_label", <<"GitHub Issue Link:">>) = 1
                       /\ Count(last, "issue_value", DowngradeText) = 1

C9_Witness ==
    /\ Delivered
    /\ CredsPresent
    /\ reply.status = 404
    /\ Len(writes) >= 1

====
